---- MODULE Spec2Model ----
(***************************************************************************)
(* QLogger: the module-to-writer registry (QLoggerManager), its            *)
(* pre-registration buffer (mNonWriterQueue) and the per-destination       *)
(* writer thread (QLoggerWriter) of src/QLogger.cpp and src/QLogger.h.     *)
(*                                                                         *)
(* A rendered line is the record [level, module, msg]: the level and the   *)
(* module name that QLoggerWriter::enqueue formats into the text, and msg, *)
(* which stands for the rest of the text (date, thread id, file:line and   *)
(* message body).  msg numbers the submissions in the order they are made, *)
(* so two submissions never render the same line; msg = 0 is the           *)
(* "Adding destination!" line.  The numbers 1..QUEUE_LIMIT are those of    *)
(* submissions made before the first state of a run (InitLimit); the       *)
(* n-th API call of a run submits msg QUEUE_LIMIT + n.                     *)
(***************************************************************************)
EXTENDS Naturals, Sequences, FiniteSets

\* ---------------------------------------------------------------- bounds
\* number of calls made through the public API in one run
MaxCalls == 3
\* number of calls made on the writer of src/QLoggerWriter.cpp in one run
MaxWriterCalls == 5
\* number of seconds that pass on the clock read by mkDateTag() in one run
MaxTicks == 1

\* ------------------------------------------------------- program constants
Trace == 0
Debug == 1
Info == 2
Warning == 3
Error == 4
Fatal == 5
QUEUE_LIMIT == 100

\* ---------------------------------------------------------------- inputs
\* module names, in QMap key order (QString operator<)
ModuleOrder == <<"db", "net">>
Modules == {ModuleOrder[i] : i \in 1..Len(ModuleOrder)}
Paths == {"app.log", "net.log"}
ThresholdInputs == {Info, Warning}
LevelInputs == {Info, Warning}
ModuleLists == {<<>>, <<"db", "net">>, <<"net", "net">>}
ModeInputs == {"Disabled", "OnlyConsole", "OnlyFile", "Full"}
FileTagInputs == {"DateTime", "Number"}
FileHandlingInputs == {"Single", "SingleTagged", "Split"}

VARIABLES
    mIsStop,          \* QLoggerManager::mIsStop (static)
    moduleDest,       \* QMap module -> writer (a writer is its creation number)
    mNonWriterQueue,  \* QMultiMap module -> message tuple, as the sequence QMap iterates
    mFileDestination, \* per writer: QLoggerWriter::mFileDestination
    mLevel,           \* per writer: QLoggerWriter::mLevel
    isStop,           \* per writer: QLoggerWriter::mIsStop
    quit,             \* per writer: QLoggerWriter::quit
    messages,         \* per writer: QLoggerWriter::messages
    copy,             \* per writer: the local batch of run()
    pc,               \* per writer: where its thread is in run()
    files,            \* file system: path -> the lines appended, each with the writer that appended it
    stopTodo,         \* pause()/resume(): the writers its loop has still to visit
    life,             \* "alive", "closing" (inside ~QLoggerManager), "destroyed"
    closeTodo,        \* ~QLoggerManager: the writers still to close; the head is being closed
    closeWait,        \* ~QLoggerManager: blocked in QThread::wait() on the head of closeTodo
    nCalls,           \* number of API calls made so far
    call,             \* the last API call and what it returned
    submitted,        \* history: one record per enqueueMessage call
    \* the writer of src/QLoggerWriter.cpp, driven through its own interface
    mMode,            \* QLoggerWriter::mMode
    mMessages,        \* QLoggerWriter::mMessages
    mQuit,            \* QLoggerWriter::mQuit
    mStopped,         \* QLoggerWriter::mIsStop
    batch,            \* the local copy of run()
    runPc,            \* where the thread is in run()
    logFile,          \* history: the messages write() has appended to a file, in order
    console,          \* the lines printed with qInfo()
    wCalls,           \* number of calls made on the writer so far
    closedAt,         \* history: the number of the first closeDestination() call, or 0
    mFileTag,         \* QLoggerWriter::mFileTag
    mFileHandling,    \* QLoggerWriter::mFileHandling
    mDateTag,         \* QLoggerWriter::mDateTag
    disk,             \* the files of mFileDestinationFolder: name -> lines
    dirMade,          \* mFileDestinationFolder exists
    now,              \* the clock, in seconds
    held              \* the mutexes held between two steps: <<mutex, writer, holder>>

vars == <<mIsStop, moduleDest, mNonWriterQueue, mFileDestination, mLevel, isStop, quit,
          messages, copy, pc, files, stopTodo, life, closeTodo, closeWait, nCalls, call,
          submitted, mMode, mMessages, mQuit, mStopped, batch, runPc, logFile, console,
          wCalls, closedAt, mFileTag, mFileHandling, mDateTag, disk, dirMade, now, held>>

\* the state of the writer of src/QLoggerWriter.cpp
newVars == <<mMode, mMessages, mQuit, mStopped, batch, runPc, logFile, console, wCalls,
             closedAt, mFileTag, mFileHandling, mDateTag, disk, dirMade, now>>

\* the files of the writer of src/QLoggerWriter.cpp, how it names them, and the clock
fileVars == <<mFileTag, mFileHandling, mDateTag, disk, dirMade, now>>

\* the state of the registry of src/QLogger.cpp and of its writers
oldVars == <<mIsStop, moduleDest, mNonWriterQueue, mFileDestination, mLevel, isStop, quit,
             messages, copy, pc, files, stopTodo, life, closeTodo, closeWait, nCalls, call,
             submitted>>

writerVars == <<mFileDestination, mLevel, isStop, quit, messages, copy, pc>>

Writers == 1..Len(pc)

Range(s) == {s[i] : i \in 1..Len(s)}

\* position of a module in QMap key order
KeyIndex(m) == CHOOSE i \in 1..Len(ModuleOrder) : ModuleOrder[i] = m

\* moduleDest.contains(module)
Contains(module) == module \in DOMAIN moduleDest

\* the values of moduleDest in iteration (key) order
DestsInOrder(md) ==
    LET keys == SelectSeq(ModuleOrder, LAMBDA m : m \in DOMAIN md)
    IN  [i \in 1..Len(keys) |-> md[keys[i]]]

\* ------------------------------------------------------------------ mutexes
\* QLoggerManager::mutex, which the destructor holds from its first line to its last
RegistryMutex == <<"registry", 0, "destructor">>

\* QLoggerManager::mutex, held by a caller that is inside addDestination
AddDestinationMutex == <<"registry", 0, "addDestination">>

\* QLoggerWriter::mutex of writer w of src/QLogger.cpp, held by the thread of w
WriterMutex(w) == <<"writer", w, "run">>

\* QLoggerWriter::mutex of the writer of src/QLoggerWriter.cpp, held by its thread
RunMutex == <<"writer", 0, "run">>

\* mutex.lock(), or a QMutexLocker, whose holder goes on to another step
Lock(h, m) == h \cup {m}

\* mutant of Unlock: the mutex is not released
Unlock_Forgotten(h, m) == h

\* mutex.unlock(), or the end of the scope of a QMutexLocker
Unlock(h, m) == h \ {m}

\* ------------------------------------------------------------ QLoggerWriter
\* the text QLoggerWriter::enqueue renders
Line(level, module, msg) == [level |-> level, module |-> module, msg |-> msg]

\* QWaitCondition::wakeOne: wakes the thread if it is blocked in wait(); it then
\* unlocks the mutex and tests the loop condition.  A wake-up nobody waits for is lost.
WakeOne(p, w) == IF p[w] = "waiting" THEN [p EXCEPT ![w] = "test"] ELSE p

\* mutant of Enqueue: the line is put at the front of the queue
Enqueue_Prepend(ms, w, line) == [ms EXCEPT ![w] = <<line>> \o @]

\* QLoggerWriter::enqueue: messages.append({threadId, text})
Enqueue(ms, w, line) == [ms EXCEPT ![w] = Append(@, line)]

\* run() reads quit without the mutex while closeDestination() writes it without
\* the mutex: a data race.  The read yields the value written or the one before it.
QuitRead(w) == IF quit[w] THEN {TRUE, FALSE} ELSE {FALSE}

\* ----------------------------------------------------------- mNonWriterQueue
\* QMultiMap keeps its items sorted by key; insert() places the new item before
\* the items that already have the same key (lower bound).
LowerBound(q, key) == Cardinality({i \in 1..Len(q) : KeyIndex(q[i].key) < KeyIndex(key)})

\* mNonWriterQueue.insert(module, {date, threadId, level, fileName, line, message})
MultiInsert(q, key, level, msg) ==
    LET lb == LowerBound(q, key)
    IN  SubSeq(q, 1, lb) \o <<[key |-> key, level |-> level, msg |-> msg]>>
            \o SubSeq(q, lb + 1, Len(q))

\* mNonWriterQueue.count(module)
Count(q, key) == Cardinality({i \in 1..Len(q) : q[i].key = key})

\* mNonWriterQueue.find(module): the first item with that key, 0 for end()
Find(q, key) ==
    IF \E i \in 1..Len(q) : q[i].key = key
    THEN CHOOSE i \in 1..Len(q) : q[i].key = key /\ \A j \in 1..(i - 1) : q[j].key # key
    ELSE 0

\* mNonWriterQueue.remove(module)
Remove(q, key) == SelectSeq(q, LAMBDA e : e.key # key)

\* the items the loop of writeAndDequeueMessages visits: from find(module) to end()
Visited(q, module) == SubSeq(q, Find(q, module), Len(q))

\* mutant of WriteAndDequeueMessages: mNonWriterQueue.remove(module) is forgotten
WriteAndDequeueMessages_NoRemove(module, q, ms, p) ==
    IF Find(q, module) # 0 /\ Contains(module) /\ ~isStop[moduleDest[module]]
    THEN LET w == moduleDest[module]
             pass == SelectSeq(Visited(q, module), LAMBDA e : mLevel[w] <= e.level)
             lines == [k \in 1..Len(pass) |-> Line(pass[k].level, module, pass[k].msg)]
         IN  [queue |-> q,
              messages |-> [ms EXCEPT ![w] = @ \o lines],
              pc |-> IF lines # <<>> THEN WakeOne(p, w) ELSE p]
    ELSE [queue |-> q, messages |-> ms, pc |-> p]

\* mutant of WriteAndDequeueMessages: the level is not compared with the threshold
WriteAndDequeueMessages_NoLevel(module, q, ms, p) ==
    IF Find(q, module) # 0 /\ Contains(module) /\ ~isStop[moduleDest[module]]
    THEN LET w == moduleDest[module]
             pass == Visited(q, module)
             lines == [k \in 1..Len(pass) |-> Line(pass[k].level, module, pass[k].msg)]
         IN  [queue |-> Remove(q, module),
              messages |-> [ms EXCEPT ![w] = @ \o lines],
              pc |-> IF lines # <<>> THEN WakeOne(p, w) ELSE p]
    ELSE [queue |-> q, messages |-> ms, pc |-> p]

\* QLoggerManager::writeAndDequeueMessages(module), on queue q, the writers' queues
\* ms and the writers' threads p; the result is what it leaves of the three
WriteAndDequeueMessages(module, q, ms, p) ==
    IF Find(q, module) # 0 /\ Contains(module) /\ ~isStop[moduleDest[module]]
    THEN LET w == moduleDest[module]
             pass == SelectSeq(Visited(q, module), LAMBDA e : mLevel[w] <= e.level)
             lines == [k \in 1..Len(pass) |-> Line(pass[k].level, module, pass[k].msg)]
         IN  [queue |-> Remove(q, module),
              messages |-> [ms EXCEPT ![w] = @ \o lines],
              pc |-> IF lines # <<>> THEN WakeOne(p, w) ELSE p]
    ELSE [queue |-> q, messages |-> ms, pc |-> p]

\* ----------------------------------------------------------- QLoggerManager
\* the registry and its writers as one value, for the loops of addDestination
Registry ==
    [moduleDest |-> moduleDest, mFileDestination |-> mFileDestination, mLevel |-> mLevel,
     isStop |-> isStop, quit |-> quit, messages |-> messages, copy |-> copy, pc |-> pc,
     allAdded |-> FALSE]

\* the body of addDestination's if: new QLoggerWriter(fileDest, level); stop(mIsStop);
\* enqueue(.., module, LogLevel::Info, "", -1, "Adding destination!");
\* moduleDest.insert(module, log); log->start()
Bind(r, fileDest, module, level) ==
    LET w == Len(r.pc) + 1
    IN  [moduleDest |-> [m \in DOMAIN r.moduleDest \cup {module} |->
                            IF m = module THEN w ELSE r.moduleDest[m]],
         mFileDestination |-> Append(r.mFileDestination, fileDest),
         mLevel |-> Append(r.mLevel, level),
         isStop |-> Append(r.isStop, mIsStop),
         quit |-> Append(r.quit, FALSE),
         messages |-> Append(r.messages, <<Line(Info, module, 0)>>),
         copy |-> Append(r.copy, <<>>),
         pc |-> Append(r.pc, "test"),
         allAdded |-> TRUE]

\* the loop of addDestination(fileDest, modules, level)
RECURSIVE BindEach(_, _, _, _)
BindEach(r, fileDest, modules, level) ==
    IF modules = <<>> THEN r
    ELSE BindEach(IF Head(modules) \in DOMAIN r.moduleDest THEN r
                  ELSE Bind(r, fileDest, Head(modules), level),
                  fileDest, Tail(modules), level)

SetRegistry(r) ==
    /\ moduleDest' = r.moduleDest
    /\ mFileDestination' = r.mFileDestination
    /\ mLevel' = r.mLevel
    /\ isStop' = r.isStop
    /\ quit' = r.quit
    /\ messages' = r.messages
    /\ copy' = r.copy
    /\ pc' = r.pc

\* an API call is made by a live program, within the bound on calls
CanCall == life = "alive" /\ nCalls < MaxCalls

\* the number of the message the next API call submits
NextMsg == QUEUE_LIMIT + nCalls + 1

\* mutant of Accepts: the level is not compared with the threshold
Accepts_NoLevel(logWriter, level) ==
    logWriter # 0 /\ ~isStop[logWriter]

\* enqueueMessage's first test: logWriter && !logWriter->isStop() && getLevel() <= level
Accepts(logWriter, level) ==
    logWriter # 0 /\ ~isStop[logWriter] /\ mLevel[logWriter] <= level

\* mutant of Buffers: <= for <
Buffers_OffByOne(logWriter, module) ==
    logWriter = 0 /\ Count(mNonWriterQueue, module) <= QUEUE_LIMIT

\* enqueueMessage's second test: !logWriter && mNonWriterQueue.count(module) < QUEUE_LIMIT
Buffers(logWriter, module) ==
    logWriter = 0 /\ Count(mNonWriterQueue, module) < QUEUE_LIMIT

Called(op, modules, ret) ==
    /\ nCalls' = nCalls + 1
    /\ call' = [op |-> op, modules |-> modules, ret |-> ret]

\* mutant of AddDestination: moduleDest.contains(module) is not tested
AddDestination_Rebind(fileDest, module, level) ==
    /\ CanCall
    /\ SetRegistry(Bind(Registry, fileDest, module, level))
    /\ Called("addDestination", <<module>>, TRUE)
    /\ UNCHANGED <<mIsStop, mNonWriterQueue, files, stopTodo, life, closeTodo, closeWait,
                   submitted>>
    /\ UNCHANGED newVars
    /\ UNCHANGED held

\* bool QLoggerManager::addDestination(fileDest, module, level)
AddDestination(fileDest, module, level) ==
    /\ CanCall
    /\ IF ~Contains(module)
       THEN /\ SetRegistry(Bind(Registry, fileDest, module, level))
            /\ Called("addDestination", <<module>>, TRUE)
       ELSE /\ UNCHANGED <<moduleDest, writerVars>>
            /\ Called("addDestination", <<module>>, FALSE)
    /\ UNCHANGED <<mIsStop, mNonWriterQueue, files, stopTodo, life, closeTodo, closeWait,
                   submitted>>
    /\ UNCHANGED newVars
    /\ UNCHANGED held

\* the writer addDestination has made and not yet inserted in moduleDest
NewLog == CHOOSE w \in Writers : pc[w] = "new"

\* addDestination(fileDest, module, level) for an unbound module, up to its
\* log->enqueue(..): under the mutex of the registry the writer is made, stopped as
\* mIsStop says at that moment and given its first line
AddDestinationBegin(fileDest, module, level) ==
    /\ CanCall
    /\ AddDestinationMutex \notin held
    /\ ~Contains(module)
    /\ LET r == Bind(Registry, fileDest, module, level)
       IN  /\ mFileDestination' = r.mFileDestination
           /\ mLevel' = r.mLevel
           /\ isStop' = r.isStop
           /\ quit' = r.quit
           /\ messages' = r.messages
           /\ copy' = r.copy
           /\ pc' = Append(pc, "new")
    /\ held' = Lock(held, AddDestinationMutex)
    /\ Called("addDestination", <<module>>, TRUE)
    /\ UNCHANGED <<mIsStop, moduleDest, mNonWriterQueue, files, stopTodo, life, closeTodo,
                   closeWait, submitted>>
    /\ UNCHANGED newVars

\* the rest of that addDestination: moduleDest.insert(module, log); log->start();
\* the mutex is released.  pause() and resume() iterate moduleDest without the
\* mutex: an insert during their loop is a data race, after which the loop visits
\* the new writer or does not.
AddDestinationEnd ==
    /\ AddDestinationMutex \in held
    /\ LET module == messages[NewLog][1].module
       IN  moduleDest' = [m \in DOMAIN moduleDest \cup {module} |->
                             IF m = module THEN NewLog ELSE moduleDest[m]]
    /\ pc' = [pc EXCEPT ![NewLog] = "test"]
    /\ stopTodo' \in IF stopTodo # <<>> THEN {stopTodo, Append(stopTodo, NewLog)}
                     ELSE {stopTodo}
    /\ held' = Unlock(held, AddDestinationMutex)
    /\ UNCHANGED <<mIsStop, mNonWriterQueue, mFileDestination, mLevel, isStop, quit, messages,
                   copy, files, life, closeTodo, closeWait, nCalls, call, submitted>>
    /\ UNCHANGED newVars

\* mutant of AddDestinationList: true only when every module of the list was added
AddDestinationList_AllAdded(fileDest, modules, level) ==
    /\ CanCall
    /\ LET r == BindEach(Registry, fileDest, modules, level)
       IN  /\ SetRegistry(r)
           /\ Called("addDestinationList", modules,
                     \A i \in 1..Len(modules) : ~Contains(modules[i]))
    /\ UNCHANGED <<mIsStop, mNonWriterQueue, files, stopTodo, life, closeTodo, closeWait,
                   submitted>>
    /\ UNCHANGED newVars
    /\ UNCHANGED held

\* bool QLoggerManager::addDestination(fileDest, modules, level)
AddDestinationList(fileDest, modules, level) ==
    /\ CanCall
    /\ LET r == BindEach(Registry, fileDest, modules, level)
       IN  /\ SetRegistry(r)
           /\ Called("addDestinationList", modules, r.allAdded)
    /\ UNCHANGED <<mIsStop, mNonWriterQueue, files, stopTodo, life, closeTodo, closeWait,
                   submitted>>
    /\ UNCHANGED newVars
    /\ UNCHANGED held

\* the registry is paused: pause() has returned and resume() has not been called
Paused == mIsStop /\ stopTodo = <<>>

\* void QLoggerManager::enqueueMessage(module, level, message, file, line)
EnqueueMessage(module, level) ==
    /\ CanCall
    /\ LET msg == NextMsg
           logWriter == IF Contains(module) THEN moduleDest[module] ELSE 0
       IN  /\ Accepts(logWriter, level) => WriterMutex(logWriter) \notin held
           /\ IF Accepts(logWriter, level)
              THEN LET r == WriteAndDequeueMessages(module, mNonWriterQueue, messages, pc)
                   IN  /\ mNonWriterQueue' = r.queue
                       /\ messages' = Enqueue(r.messages, logWriter, Line(level, module, msg))
                       /\ pc' = WakeOne(r.pc, logWriter)
              ELSE IF Buffers(logWriter, module)
              THEN /\ mNonWriterQueue' = MultiInsert(mNonWriterQueue, module, level, msg)
                   /\ UNCHANGED <<messages, pc>>
              ELSE UNCHANGED <<mNonWriterQueue, messages, pc>>
           /\ submitted' = submitted \cup
                  {[msg |-> msg, module |-> module, level |-> level,
                    bound |-> logWriter # 0,
                    threshold |-> IF logWriter # 0 THEN mLevel[logWriter] ELSE Trace,
                    paused |-> Paused]}
    /\ Called("enqueueMessage", <<module>>, TRUE)
    /\ UNCHANGED <<mIsStop, moduleDest, mFileDestination, mLevel, isStop, quit, copy, files,
                   stopTodo, life, closeTodo, closeWait>>
    /\ UNCHANGED newVars
    /\ UNCHANGED held

\* void QLoggerManager::pause(): mIsStop = true, then the loop over moduleDest
Pause ==
    /\ CanCall
    /\ stopTodo = <<>>
    /\ mIsStop' = TRUE
    /\ stopTodo' = DestsInOrder(moduleDest)
    /\ Called("pause", <<>>, TRUE)
    /\ UNCHANGED <<moduleDest, mNonWriterQueue, writerVars, files, life, closeTodo,
                   closeWait, submitted>>
    /\ UNCHANGED newVars
    /\ UNCHANGED held

\* void QLoggerManager::resume(): mIsStop = false, then the loop over moduleDest
Resume ==
    /\ CanCall
    /\ stopTodo = <<>>
    /\ mIsStop' = FALSE
    /\ stopTodo' = DestsInOrder(moduleDest)
    /\ Called("resume", <<>>, TRUE)
    /\ UNCHANGED <<moduleDest, mNonWriterQueue, writerVars, files, life, closeTodo,
                   closeWait, submitted>>
    /\ UNCHANGED newVars
    /\ UNCHANGED held

\* one turn of the loop of pause() or resume(): logWriter->stop(mIsStop)
StopNext ==
    /\ stopTodo # <<>>
    /\ isStop' = [isStop EXCEPT ![Head(stopTodo)] = mIsStop]
    /\ stopTodo' = Tail(stopTodo)
    /\ UNCHANGED <<mIsStop, moduleDest, mNonWriterQueue, mFileDestination, mLevel, quit,
                   messages, copy, pc, files, life, closeTodo, closeWait, nCalls, call,
                   submitted>>
    /\ UNCHANGED newVars
    /\ UNCHANGED held

\* void QLoggerManager::overwriteLogLevel(level)
OverwriteLogLevel(level) ==
    /\ CanCall
    /\ mLevel' = [w \in 1..Len(mLevel) |->
                     IF \E m \in DOMAIN moduleDest : moduleDest[m] = w THEN level
                     ELSE mLevel[w]]
    /\ Called("overwriteLogLevel", <<>>, TRUE)
    /\ UNCHANGED <<mIsStop, moduleDest, mNonWriterQueue, mFileDestination, isStop, quit,
                   messages, copy, pc, files, stopTodo, life, closeTodo, closeWait,
                   submitted>>
    /\ UNCHANGED newVars
    /\ UNCHANGED held

\* --------------------------------------------------------- QLoggerWriter::run
\* while (!quit)
Test(w) ==
    /\ pc[w] = "test"
    /\ \E q \in QuitRead(w) : pc' = [pc EXCEPT ![w] = IF q THEN "done" ELSE "swap"]
    /\ UNCHANGED <<mIsStop, moduleDest, mNonWriterQueue, mFileDestination, mLevel, isStop,
                   quit, messages, copy, files, stopTodo, life, closeTodo, closeWait,
                   nCalls, call, submitted>>
    /\ UNCHANGED newVars
    /\ UNCHANGED held

\* mutex.lock(); std::swap(copy, messages); mutex.unlock()
Swap(w) ==
    /\ pc[w] = "swap"
    /\ copy' = [copy EXCEPT ![w] = messages[w]]
    /\ messages' = [messages EXCEPT ![w] = <<>>]
    /\ pc' = [pc EXCEPT ![w] = "write"]
    /\ UNCHANGED <<mIsStop, moduleDest, mNonWriterQueue, mFileDestination, mLevel, isStop,
                   quit, files, stopTodo, life, closeTodo, closeWait, nCalls, call,
                   submitted>>
    /\ UNCHANGED newVars
    /\ UNCHANGED held

\* mutex.lock(), as a step of its own: the thread holds the mutex of its writer
LockSwap(w) ==
    /\ pc[w] = "swap"
    /\ WriterMutex(w) \notin held
    /\ held' = Lock(held, WriterMutex(w))
    /\ pc' = [pc EXCEPT ![w] = "locked"]
    /\ UNCHANGED <<mIsStop, moduleDest, mNonWriterQueue, mFileDestination, mLevel, isStop,
                   quit, messages, copy, files, stopTodo, life, closeTodo, closeWait,
                   nCalls, call, submitted>>
    /\ UNCHANGED newVars

\* std::swap(copy, messages); mutex.unlock(), by the thread that holds the mutex
SwapUnlock(w) ==
    /\ pc[w] = "locked"
    /\ copy' = [copy EXCEPT ![w] = messages[w]]
    /\ messages' = [messages EXCEPT ![w] = <<>>]
    /\ held' = Unlock(held, WriterMutex(w))
    /\ pc' = [pc EXCEPT ![w] = "write"]
    /\ UNCHANGED <<mIsStop, moduleDest, mNonWriterQueue, mFileDestination, mLevel, isStop,
                   quit, files, stopTodo, life, closeTodo, closeWait, nCalls, call,
                   submitted>>
    /\ UNCHANGED newVars

\* QLoggerWriter::write(msg): open mFileDestination for appending and write the text.
\* The files start empty and get fewer than MaxCalls + 2 lines each, so the size is
\* below MAX_SIZE and renameFileIfFull() renames nothing.
Write(w) ==
    /\ pc[w] = "write"
    /\ copy[w] # <<>>
    /\ files' = [files EXCEPT ![mFileDestination[w]] =
                     Append(@, [by |-> w, text |-> Head(copy[w])])]
    /\ copy' = [copy EXCEPT ![w] = Tail(@)]
    /\ UNCHANGED <<mIsStop, moduleDest, mNonWriterQueue, mFileDestination, mLevel, isStop,
                   quit, messages, pc, stopTodo, life, closeTodo, closeWait, nCalls, call,
                   submitted>>
    /\ UNCHANGED newVars
    /\ UNCHANGED held

\* the batch is written: mutex.lock(); queueNotEmpty.wait(&mutex)
Wait(w) ==
    /\ pc[w] = "write"
    /\ copy[w] = <<>>
    /\ pc' = [pc EXCEPT ![w] = "waiting"]
    /\ UNCHANGED <<mIsStop, moduleDest, mNonWriterQueue, mFileDestination, mLevel, isStop,
                   quit, messages, copy, files, stopTodo, life, closeTodo, closeWait,
                   nCalls, call, submitted>>
    /\ UNCHANGED newVars
    /\ UNCHANGED held

\* ------------------------------------------------ QLoggerManager::~QLoggerManager
\* for (dest : moduleDest.toStdMap()) writeAndDequeueMessages(dest.first)
RECURSIVE DequeueEach(_, _, _, _)
DequeueEach(modules, q, ms, p) ==
    IF modules = <<>> THEN [queue |-> q, messages |-> ms, pc |-> p]
    ELSE LET r == WriteAndDequeueMessages(Head(modules), q, ms, p)
         IN  DequeueEach(Tail(modules), r.queue, r.messages, r.pc)

\* the destructor takes the mutex and runs its first loop, taking the mutex of each
\* writer it enqueues a line on
Destroy ==
    /\ life = "alive"
    /\ stopTodo = <<>>
    /\ LET r == DequeueEach(SelectSeq(ModuleOrder, Contains), mNonWriterQueue, messages, pc)
       IN  /\ \A w \in Writers : r.messages[w] # messages[w] => WriterMutex(w) \notin held
           /\ mNonWriterQueue' = r.queue
           /\ messages' = r.messages
           /\ pc' = r.pc
    /\ life' = "closing"
    /\ closeTodo' = DestsInOrder(moduleDest)
    /\ closeWait' = FALSE
    /\ held' = Lock(held, RegistryMutex)
    /\ UNCHANGED <<mIsStop, moduleDest, mFileDestination, mLevel, isStop, quit, copy, files,
                   stopTodo, nCalls, call, submitted>>
    /\ UNCHANGED newVars

\* QLoggerWriter::closeDestination() up to its wait(): quit = true; wakeOne()
CloseDestination ==
    /\ life = "closing"
    /\ closeTodo # <<>>
    /\ ~closeWait
    /\ quit' = [quit EXCEPT ![Head(closeTodo)] = TRUE]
    /\ pc' = WakeOne(pc, Head(closeTodo))
    /\ closeWait' = TRUE
    /\ UNCHANGED <<mIsStop, moduleDest, mNonWriterQueue, mFileDestination, mLevel, isStop,
                   messages, copy, files, stopTodo, life, closeTodo, nCalls, call,
                   submitted>>
    /\ UNCHANGED newVars
    /\ UNCHANGED held

\* QThread::wait() returns when run() has returned; then delete dest
Joined ==
    /\ life = "closing"
    /\ closeTodo # <<>>
    /\ closeWait
    /\ pc[Head(closeTodo)] = "done"
    /\ closeTodo' = Tail(closeTodo)
    /\ closeWait' = FALSE
    /\ UNCHANGED <<mIsStop, moduleDest, mNonWriterQueue, writerVars, files, stopTodo, life,
                   nCalls, call, submitted>>
    /\ UNCHANGED newVars
    /\ UNCHANGED held

\* moduleDest.clear()
Destroyed ==
    /\ life = "closing"
    /\ closeTodo = <<>>
    /\ moduleDest' = <<>>
    /\ life' = "destroyed"
    /\ held' = Unlock(held, RegistryMutex)
    /\ UNCHANGED <<mIsStop, mNonWriterQueue, writerVars, files, stopTodo, closeTodo,
                   closeWait, nCalls, call, submitted>>
    /\ UNCHANGED newVars

\* ------------------------------------------ the writer of QLoggerWriter.cpp
\* QThread::isRunning()
IsRunning == runPc \notin {"none", "idle", "done"}

\* a call on the writer, within the bound on calls
CanCallWriter == runPc # "none" /\ wCalls < MaxWriterCalls

\* QWaitCondition::wakeAll on mQueueNotEmpty: the thread, if blocked in one of the
\* two wait() of run(), goes on to the loop condition
WakeAll(p) == IF p \in {"waiting1", "waiting2"} THEN "loop" ELSE p

\* ---- file names.  A name is mBareFileDestination, or it with a date tag or with
\* a number in parentheses before the extension; NoName is the empty QString.
NoName == [tag |-> "none", n |-> 0]
mBareFileDestination == [tag |-> "bare", n |-> 0]
DateName(dateTag) == [tag |-> "date", n |-> dateTag]
NumberName(fileSuffixNumber) == [tag |-> "number", n |-> fileSuffixNumber]

\* the size above which a file is renamed, in lines
mMaxFileSize == 2

\* the default of generateDuplicateFilename's parameter fileSuffixNumber
DefaultSuffixNumber == 1

\* QLoggerWriter::mkDateTag(): the clock, to the second
MkDateTag == now

\* QFile::size(): 0 for a file that does not exist
Size(d, name) == IF name \in DOMAIN d THEN Len(d[name]) ELSE 0

\* mutant of GenerateDuplicateFilename: the number is put in the name from 1 on
RECURSIVE GenerateDuplicateFilename_FromOne(_, _)
GenerateDuplicateFilename_FromOne(d, fileSuffixNumber) ==
    LET path == IF fileSuffixNumber > 0 THEN NumberName(fileSuffixNumber)
                ELSE mBareFileDestination
    IN  IF path \in DOMAIN d
        THEN GenerateDuplicateFilename_FromOne(d, fileSuffixNumber + 1)
        ELSE path

\* QLoggerWriter::generateDuplicateFilename(fileDestination, fileExtension, fileSuffixNumber)
RECURSIVE GenerateDuplicateFilename(_, _)
GenerateDuplicateFilename(d, fileSuffixNumber) ==
    LET path == IF fileSuffixNumber > 1 THEN NumberName(fileSuffixNumber)
                ELSE mBareFileDestination
    IN  IF path \in DOMAIN d
        THEN GenerateDuplicateFilename(d, fileSuffixNumber + 1)
        ELSE path

\* QLoggerWriter::getTaggedFileDestination(dateTag)
GetTaggedFileDestination(d, dateTag) ==
    IF mFileTag = "DateTime" THEN DateName(dateTag)
    ELSE GenerateDuplicateFilename(d, DefaultSuffixNumber)

\* QLoggerWriter::getFileDestination()
GetFileDestination(d) ==
    IF mFileHandling = "SingleTagged" THEN GetTaggedFileDestination(d, mDateTag)
    ELSE mBareFileDestination

\* mutant of CanRename: an existing newName is replaced, as rename(2) does
CanRename_Overwrite(d, oldName, newName) == oldName \in DOMAIN d

\* QFile::rename(oldName, newName): fails when oldName does not exist or newName does
CanRename(d, oldName, newName) == oldName \in DOMAIN d /\ newName \notin DOMAIN d

Rename(d, oldName, newName) ==
    [f \in (DOMAIN d \ {oldName}) \cup {newName} |-> IF f = newName THEN d[oldName] ELSE d[f]]

\* mutant of RenameFileIfFull: the result of file.rename() is not looked at
RenameFileIfFull_Unchecked(d) ==
    IF Size(d, GetFileDestination(d)) >= mMaxFileSize
    THEN LET newName == GetTaggedFileDestination(d, MkDateTag)
             renamed == CanRename(d, GetFileDestination(d), newName)
         IN  [name |-> newName,
              disk |-> IF renamed THEN Rename(d, GetFileDestination(d), newName) ELSE d]
    ELSE [name |-> NoName, disk |-> d]

\* QLoggerWriter::renameFileIfFull(): the name the file was renamed to, or NoName,
\* and the files after it
RenameFileIfFull(d) ==
    IF Size(d, GetFileDestination(d)) >= mMaxFileSize
    THEN LET newName == GetTaggedFileDestination(d, MkDateTag)
             renamed == CanRename(d, GetFileDestination(d), newName)
         IN  [name |-> IF renamed THEN newName ELSE NoName,
              disk |-> IF renamed THEN Rename(d, GetFileDestination(d), newName) ELSE d]
    ELSE [name |-> NoName, disk |-> d]

\* file.open(ReadWrite | Text | Append), out << lines, file.close(): the file is
\* created if it is not there; open() fails when the folder is missing
AppendLines(d, name, lines) ==
    [f \in DOMAIN d \cup {name} |-> IF f = name
                                     THEN (IF name \in DOMAIN d THEN d[name] ELSE <<>>) \o lines
                                     ELSE d[f]]

\* mutant of MkPath: the folder is made whatever the mode
MkPath_Always(mode) == TRUE

\* dir.mkpath(".") of the constructor and of setLogMode
MkPath(mode) == dirMade \/ mode \in {"Full", "OnlyFile"}

\* QLoggerWriter::QLoggerWriter(.., mode, fileTag, fileHandling, ..): the thread is
\* not started
NewWriter(mode, fileTag, fileHandling) ==
    /\ runPc = "none"
    /\ mMode' = mode
    /\ mFileTag' = fileTag
    /\ mFileHandling' = fileHandling
    /\ mDateTag' = MkDateTag
    /\ dirMade' = MkPath(mode)
    /\ runPc' = "idle"
    /\ wCalls' = wCalls + 1
    /\ UNCHANGED <<mMessages, mQuit, mStopped, batch, logFile, console, closedAt, disk, now>>
    /\ UNCHANGED oldVars
    /\ UNCHANGED held

\* a second passes
Tick ==
    /\ runPc # "none"
    /\ now < MaxTicks
    /\ now' = now + 1
    /\ UNCHANGED <<mMode, mMessages, mQuit, mStopped, batch, runPc, logFile, console, wCalls,
                   closedAt, mFileTag, mFileHandling, mDateTag, disk, dirMade>>
    /\ UNCHANGED oldVars
    /\ UNCHANGED held

\* QThread::start(), called by the owner of the writer
StartWriter ==
    /\ CanCallWriter
    /\ runPc' = IF IsRunning THEN runPc ELSE "start"
    /\ wCalls' = wCalls + 1
    /\ UNCHANGED <<mMode, mMessages, mQuit, mStopped, batch, logFile, console, closedAt>>
    /\ UNCHANGED fileVars
    /\ UNCHANGED oldVars
    /\ UNCHANGED held

\* QLoggerWriter::setLogMode(mode)
SetLogMode(mode) ==
    /\ CanCallWriter
    /\ mMode' = mode
    /\ dirMade' = MkPath(mode)
    /\ runPc' = IF mode # "Disabled" /\ ~IsRunning THEN "start" ELSE runPc
    /\ wCalls' = wCalls + 1
    /\ UNCHANGED <<mMessages, mQuit, mStopped, batch, logFile, console, closedAt,
                   mFileTag, mFileHandling, mDateTag, disk, now>>
    /\ UNCHANGED oldVars
    /\ UNCHANGED held

\* QLoggerWriter::stop(flag)
StopWriter(flag) ==
    /\ CanCallWriter
    /\ mStopped' = flag
    /\ wCalls' = wCalls + 1
    /\ UNCHANGED <<mMode, mMessages, mQuit, batch, runPc, logFile, console, closedAt>>
    /\ UNCHANGED fileVars
    /\ UNCHANGED oldVars
    /\ UNCHANGED held

\* QLoggerWriter::enqueue(date, threadId, module, level, function, fileName, line, message)
EnqueueWriter ==
    /\ CanCallWriter
    /\ RunMutex \notin held
    /\ IF mMode = "Disabled"
       THEN UNCHANGED <<mMessages, runPc>>
       ELSE /\ mMessages' = Append(mMessages, Line(Info, "db", wCalls + 1))
            /\ runPc' = IF ~mStopped THEN WakeAll(runPc) ELSE runPc
    /\ wCalls' = wCalls + 1
    /\ UNCHANGED <<mMode, mQuit, mStopped, batch, logFile, console, closedAt>>
    /\ UNCHANGED fileVars
    /\ UNCHANGED oldVars
    /\ UNCHANGED held

\* QLoggerWriter::closeDestination()
CloseWriter ==
    /\ CanCallWriter
    /\ RunMutex \notin held
    /\ mQuit' = TRUE
    /\ runPc' = WakeAll(runPc)
    /\ wCalls' = wCalls + 1
    /\ closedAt' = IF closedAt = 0 THEN wCalls + 1 ELSE closedAt
    /\ UNCHANGED <<mMode, mMessages, mStopped, batch, logFile, console>>
    /\ UNCHANGED fileVars
    /\ UNCHANGED oldVars
    /\ UNCHANGED held

\* run(): if (!mQuit), before the first wait
RunStart ==
    /\ runPc = "start"
    /\ runPc' = IF mQuit THEN "loop" ELSE "lock1"
    /\ UNCHANGED <<mMode, mMessages, mQuit, mStopped, batch, logFile, console, wCalls, closedAt>>
    /\ UNCHANGED fileVars
    /\ UNCHANGED oldVars
    /\ UNCHANGED held

\* run(): QMutexLocker locker(&mutex); mQueueNotEmpty.wait(&mutex), either of the two
RunWait ==
    /\ runPc \in {"lock1", "lock2"}
    /\ runPc' = IF runPc = "lock1" THEN "waiting1" ELSE "waiting2"
    /\ UNCHANGED <<mMode, mMessages, mQuit, mStopped, batch, logFile, console, wCalls, closedAt>>
    /\ UNCHANGED fileVars
    /\ UNCHANGED oldVars
    /\ UNCHANGED held

\* run(): while (!mQuit)
RunLoop ==
    /\ runPc = "loop"
    /\ runPc' = IF mQuit THEN "done" ELSE "swap"
    /\ UNCHANGED <<mMode, mMessages, mQuit, mStopped, batch, logFile, console, wCalls, closedAt>>
    /\ UNCHANGED fileVars
    /\ UNCHANGED oldVars
    /\ UNCHANGED held

\* run(): std::swap(copy, mMessages) under the mutex
RunSwap ==
    /\ runPc = "swap"
    /\ batch' = mMessages
    /\ mMessages' = <<>>
    /\ runPc' = "write"
    /\ UNCHANGED <<mMode, mQuit, mStopped, logFile, console, wCalls, closedAt>>
    /\ UNCHANGED fileVars
    /\ UNCHANGED oldVars
    /\ UNCHANGED held

\* run(): QMutexLocker locker(&mutex) before the swap, as a step of its own
RunLock ==
    /\ runPc = "swap"
    /\ RunMutex \notin held
    /\ held' = Lock(held, RunMutex)
    /\ runPc' = "locked"
    /\ UNCHANGED <<mMode, mMessages, mQuit, mStopped, batch, logFile, console, wCalls, closedAt>>
    /\ UNCHANGED fileVars
    /\ UNCHANGED oldVars

\* run(): std::swap(copy, mMessages) and the end of the locker's scope
RunSwapUnlock ==
    /\ runPc = "locked"
    /\ batch' = mMessages
    /\ mMessages' = <<>>
    /\ held' = Unlock(held, RunMutex)
    /\ runPc' = "write"
    /\ UNCHANGED <<mMode, mQuit, mStopped, logFile, console, wCalls, closedAt>>
    /\ UNCHANGED fileVars
    /\ UNCHANGED oldVars

\* QLoggerWriter::write(copy): to the console only; or to the file, renamed first
\* if it is full and the handling is Split, and, in mode Full, to the console too
RunWrite ==
    /\ runPc = "write"
    /\ IF mMode = "OnlyConsole"
       THEN /\ console' = console \o batch
            /\ UNCHANGED <<logFile, disk>>
       ELSE LET file == GetFileDestination(disk)
                full == IF mFileHandling = "Split" THEN RenameFileIfFull(disk)
                        ELSE [name |-> NoName, disk |-> disk]
                prev == IF full.name # NoName THEN <<[previous |-> full.name]>> ELSE <<>>
            IN  IF dirMade
                THEN /\ disk' = AppendLines(full.disk, file, prev \o batch)
                     /\ logFile' = logFile \o batch
                     /\ console' = IF mMode = "Full" THEN console \o batch ELSE console
                ELSE /\ disk' = full.disk
                     /\ UNCHANGED <<logFile, console>>
    /\ batch' = <<>>
    /\ runPc' = "written"
    /\ UNCHANGED <<mMode, mMessages, mQuit, mStopped, wCalls, closedAt,
                   mFileTag, mFileHandling, mDateTag, dirMade, now>>
    /\ UNCHANGED oldVars
    /\ UNCHANGED held

\* run(): if (!mQuit), after write()
RunWritten ==
    /\ runPc = "written"
    /\ runPc' = IF mQuit THEN "loop" ELSE "lock2"
    /\ UNCHANGED <<mMode, mMessages, mQuit, mStopped, batch, logFile, console, wCalls, closedAt>>
    /\ UNCHANGED fileVars
    /\ UNCHANGED oldVars
    /\ UNCHANGED held

\* ------------------------------------------------------------ specification
InitThread ==
    /\ mMode = "Disabled"
    /\ mMessages = <<>>
    /\ mQuit = FALSE
    /\ mStopped = FALSE
    /\ batch = <<>>
    /\ runPc = "none"
    /\ logFile = <<>>
    /\ console = <<>>
    /\ wCalls = 0
    /\ closedAt = 0
    /\ mFileTag = "DateTime"
    /\ mFileHandling = "Single"
    /\ mDateTag = 0
    /\ now = 0
    /\ held = {}

\* no writer yet, and no folder
InitWriter ==
    /\ InitThread
    /\ disk = [f \in {} |-> <<>>]
    /\ dirMade = FALSE

InitManager ==
    /\ mIsStop = FALSE
    /\ moduleDest = <<>>
    /\ mNonWriterQueue = <<>>
    /\ mFileDestination = <<>>
    /\ mLevel = <<>>
    /\ isStop = <<>>
    /\ quit = <<>>
    /\ messages = <<>>
    /\ copy = <<>>
    /\ pc = <<>>
    /\ files = [f \in Paths |-> <<>>]
    /\ stopTodo = <<>>
    /\ life = "alive"
    /\ closeTodo = <<>>
    /\ closeWait = FALSE
    /\ nCalls = 0
    /\ call = [op |-> "none", modules |-> <<>>, ret |-> TRUE]
    /\ submitted = {}

Init == InitWriter /\ InitManager

Next ==
    \/ \E f \in Paths, m \in Modules, l \in ThresholdInputs : AddDestination(f, m, l)
    \/ \E f \in Paths, ms \in ModuleLists, l \in ThresholdInputs : AddDestinationList(f, ms, l)
    \/ \E m \in Modules, l \in LevelInputs : EnqueueMessage(m, l)
    \/ Pause
    \/ Resume
    \/ StopNext
    \/ \E l \in ThresholdInputs : OverwriteLogLevel(l)
    \/ \E w \in Writers : Test(w)
    \/ \E w \in Writers : Swap(w)
    \/ \E w \in Writers : Write(w)
    \/ \E w \in Writers : Wait(w)
    \/ Destroy
    \/ CloseDestination
    \/ Joined
    \/ Destroyed

Spec == Init /\ [][Next]_vars

\* the state after QUEUE_LIMIT - 1 calls enqueueMessage("db", Info, ..) of a program
\* that has registered no destination: one more fills the buffer of "db"
InitLimit ==
    /\ InitWriter
    /\ mIsStop = FALSE
    /\ moduleDest = <<>>
    /\ mNonWriterQueue = [i \in 1..(QUEUE_LIMIT - 1) |->
                              [key |-> "db", level |-> Info, msg |-> QUEUE_LIMIT - i]]
    /\ mFileDestination = <<>>
    /\ mLevel = <<>>
    /\ isStop = <<>>
    /\ quit = <<>>
    /\ messages = <<>>
    /\ copy = <<>>
    /\ pc = <<>>
    /\ files = [f \in Paths |-> <<>>]
    /\ stopTodo = <<>>
    /\ life = "alive"
    /\ closeTodo = <<>>
    /\ closeWait = FALSE
    /\ nCalls = 0
    /\ call = [op |-> "enqueueMessage", modules |-> <<"db">>, ret |-> TRUE]
    /\ submitted = {[msg |-> i, module |-> "db", level |-> Info, bound |-> FALSE,
                      threshold |-> Trace, paused |-> FALSE] : i \in 1..(QUEUE_LIMIT - 1)}

\* the operations that read or write mNonWriterQueue, or set what they read.  The
\* writers' threads touch none of it, so they are left out: each would add the
\* hundred Write steps of a replayed buffer to every interleaving.
NextLimit ==
    \/ \E f \in Paths, m \in Modules, l \in ThresholdInputs : AddDestination(f, m, l)
    \/ \E f \in Paths, ms \in ModuleLists, l \in ThresholdInputs : AddDestinationList(f, ms, l)
    \/ \E m \in Modules, l \in LevelInputs : EnqueueMessage(m, l)
    \/ Pause
    \/ Resume
    \/ StopNext
    \/ \E l \in ThresholdInputs : OverwriteLogLevel(l)
    \/ Destroy

SpecLimit == InitLimit /\ [][NextLimit]_vars

\* the writer of src/QLoggerWriter.cpp alone, called by its owner
NextWriter ==
    \/ \E mode \in ModeInputs, fileTag \in FileTagInputs, fileHandling \in FileHandlingInputs :
           NewWriter(mode, fileTag, fileHandling)
    \/ Tick
    \/ StartWriter
    \/ \E mode \in ModeInputs : SetLogMode(mode)
    \/ \E flag \in BOOLEAN : StopWriter(flag)
    \/ EnqueueWriter
    \/ CloseWriter
    \/ RunStart
    \/ RunWait
    \/ RunLoop
    \/ RunSwap
    \/ RunWrite
    \/ RunWritten

SpecWriter == Init /\ [][NextWriter]_vars

\* the files an earlier run may have left in the folder, each with two lines
OldLines == <<Line(Info, "db", 0), Line(Warning, "db", 0)>>
OldNames == {mBareFileDestination, NumberName(2), NumberName(3), DateName(0)}

\* the writer of src/QLoggerWriter.cpp in a folder that holds files of earlier runs
InitRotate ==
    /\ InitThread
    /\ InitManager
    /\ \E names \in SUBSET OldNames : disk = [f \in names |-> OldLines]
    /\ dirMade = TRUE

\* the steps that lead to write(): a writer that logs to a file is made, started
\* and given lines while the clock runs
NextRotate ==
    \/ \E mode \in {"OnlyFile", "Full"}, fileTag \in FileTagInputs,
            fileHandling \in FileHandlingInputs : NewWriter(mode, fileTag, fileHandling)
    \/ Tick
    \/ StartWriter
    \/ EnqueueWriter
    \/ RunStart
    \/ RunWait
    \/ RunLoop
    \/ RunSwap
    \/ RunWrite
    \/ RunWritten

SpecRotate == InitRotate /\ [][NextRotate]_vars

\* a run of either program: the registry of src/QLogger.cpp with its writers, or
\* the writer of src/QLoggerWriter.cpp; the first step decides which
NextBoth ==
    \/ runPc = "none" /\ Next
    \/ nCalls = 0 /\ life = "alive" /\ NextWriter

SpecBoth == Init /\ [][NextBoth]_vars

\* a run of either program, with the steps that put lines in a writer's queue, take
\* them out or decide whether they get in: registration of one module, submission,
\* pause and resume, the writers' threads and teardown
NextFifo ==
    \/ /\ runPc = "none"
       /\ \/ \E f \in Paths, m \in Modules, l \in ThresholdInputs : AddDestination(f, m, l)
          \/ \E m \in Modules, l \in LevelInputs : EnqueueMessage(m, l)
          \/ Pause
          \/ Resume
          \/ StopNext
          \/ \E w \in Writers : Test(w)
          \/ \E w \in Writers : Swap(w)
          \/ \E w \in Writers : Write(w)
          \/ \E w \in Writers : Wait(w)
          \/ Destroy
          \/ CloseDestination
          \/ Joined
          \/ Destroyed
    \/ nCalls = 0 /\ life = "alive" /\ NextWriter

SpecFifo == Init /\ [][NextFifo]_vars

\* either program with the mutexes of run() taken and released in steps of their
\* own: what the other threads can do while the thread of a writer holds its mutex
NextLock ==
    \/ /\ runPc = "none"
       /\ \/ \E f \in Paths, m \in Modules, l \in ThresholdInputs : AddDestination(f, m, l)
          \/ \E m \in Modules, l \in LevelInputs : EnqueueMessage(m, l)
          \/ \E w \in Writers : Test(w)
          \/ \E w \in Writers : LockSwap(w)
          \/ \E w \in Writers : SwapUnlock(w)
          \/ \E w \in Writers : Write(w)
          \/ \E w \in Writers : Wait(w)
          \/ Destroy
          \/ CloseDestination
          \/ Joined
          \/ Destroyed
    \/ /\ nCalls = 0
       /\ life = "alive"
       /\ \/ \E mode \in ModeInputs, fileTag \in FileTagInputs,
                  fileHandling \in FileHandlingInputs : NewWriter(mode, fileTag, fileHandling)
          \/ StartWriter
          \/ EnqueueWriter
          \/ CloseWriter
          \/ RunStart
          \/ RunWait
          \/ RunLoop
          \/ RunLock
          \/ RunSwapUnlock
          \/ RunWrite
          \/ RunWritten

SpecLock == Init /\ [][NextLock]_vars

\* pause() and resume() on one thread and addDestination on another, with the steps
\* of addDestination that pause() and resume(), which take no mutex, can fall between
NextPause ==
    \/ \E f \in Paths, m \in Modules, l \in ThresholdInputs : AddDestinationBegin(f, m, l)
    \/ AddDestinationEnd
    \/ Pause
    \/ Resume
    \/ StopNext
    \/ \E w \in Writers : Test(w)
    \/ \E w \in Writers : Swap(w)
    \/ \E w \in Writers : Write(w)
    \/ \E w \in Writers : Wait(w)

SpecPause == Init /\ [][NextPause]_vars

\* the number of writers a run can make: one per module name
MaxWriters == Len(ModuleOrder)

\* the thread of writer w of src/QLogger.cpp takes its next step in run()
ThreadStep(w) == w \in Writers /\ (Test(w) \/ Swap(w) \/ Write(w) \/ Wait(w))

\* the thread of the writer of src/QLoggerWriter.cpp takes its next step in run()
RunStep == RunStart \/ RunWait \/ RunLoop \/ RunSwap \/ RunWrite \/ RunWritten

\* the thread inside ~QLoggerManager takes its next step
TeardownStep == CloseDestination \/ Joined \/ Destroyed

\* scheduling: a thread that can take a step of run(), of the loop of pause() or
\* resume(), or of the destructor is given the processor in the end.  Nothing makes
\* the program call the API again, or end.
Fairness ==
    /\ \A w \in 1..MaxWriters : WF_vars(ThreadStep(w))
    /\ WF_vars(RunStep)
    /\ WF_vars(StopNext)
    /\ WF_vars(TeardownStep)

\* a run of either program under that scheduling
SpecShutdown == Init /\ [][NextFifo]_vars /\ Fairness

\* ------------------------------------------------------------- observation
\* the texts writer w has appended to its file, in file order
WrittenBy(w) ==
    LET mine == SelectSeq(files[mFileDestination[w]], LAMBDA e : e.by = w)
    IN  [i \in 1..Len(mine) |-> mine[i].text]

\* every line handed to writer w that it still holds or has written: written, then
\* the batch being written, then the pending queue
Pipeline(w) == WrittenBy(w) \o copy[w] \o messages[w]

MsgsOf(lines) == {lines[i].msg : i \in 1..Len(lines)}

\* the message is in the pre-registration buffer
Buffered(msg) == \E i \in 1..Len(mNonWriterQueue) : mNonWriterQueue[i].msg = msg

\* the message was handed to a writer
Delivered(msg) == \E w \in Writers : msg \in MsgsOf(Pipeline(w))

IsPrefix(a, b) == Len(a) <= Len(b) /\ SubSeq(b, 1, Len(a)) = a

\* the lines are in the order of their numbers
Ascending(lines) == \A i, j \in 1..Len(lines) : i < j => lines[i].msg < lines[j].msg

\* the step is API call op
IsCall(op) == nCalls' = nCalls + 1 /\ call'.op = op

\* ------------------------------------------------------------------ claims

\* C1: a message submitted while the registry is paused, to a module with a bound
\* writer and at a level that passes its threshold, is retained (buffered or
\* queued), so that it can be written after resume().
C1_PausedSubmissionKept ==
    \A s \in submitted :
        (s.bound /\ s.paused /\ s.threshold <= s.level) => (Buffered(s.msg) \/ Delivered(s.msg))

\* C2: when run() has returned, every message enqueued before closeDestination()
\* has been written: the writer's queue and its batch are empty.
C2_CloseDrainsQueue ==
    /\ \A w \in Writers : pc[w] = "done" => (messages[w] = <<>> /\ copy[w] = <<>>)
    /\ runPc = "done" => \A i \in 1..Len(mMessages) : mMessages[i].msg > closedAt

C4_ReplayOldestFirst ==
    \A w \in Writers :
        LET own == SelectSeq(Pipeline(w), LAMBDA t :
                       \E s \in submitted : s.msg = t.msg /\ s.module = t.module)
        IN  \A i, j \in 1..Len(own) : i < j => own[i].msg < own[j].msg

AcceptedSubmission(m) ==
    /\ IsCall("enqueueMessage")
    /\ call'.modules = <<m>>
    /\ Contains(m)
    /\ \E s \in submitted' \ submitted : Accepts(moduleDest[m], s.level)

\* the entries buffered for m that pass the threshold of its writer are in the
\* writer's queue after the step
Replayed(m) ==
    \A i \in 1..Len(mNonWriterQueue) :
        LET e == mNonWriterQueue[i]
        IN  (e.key = m /\ mLevel[moduleDest[m]] <= e.level)
                => \E k \in 1..Len(messages'[moduleDest[m]]) :
                       messages'[moduleDest[m]][k] = Line(e.level, m, e.msg)

C6_BoundedBuffer ==
    [][\A m \in Modules :
          /\ Count(mNonWriterQueue, m) <= QUEUE_LIMIT
          /\ Count(mNonWriterQueue', m) <= QUEUE_LIMIT
          /\ (IsCall("enqueueMessage") /\ call'.modules = <<m>> /\ ~Contains(m))
                => IF Count(mNonWriterQueue, m) < QUEUE_LIMIT
                   THEN /\ Count(mNonWriterQueue', m) = Count(mNonWriterQueue, m) + 1
                        /\ \E i \in 1..Len(mNonWriterQueue') :
                               mNonWriterQueue'[i].msg = NextMsg
                   ELSE UNCHANGED <<mNonWriterQueue, moduleDest, writerVars, files>>
      ]_vars

\* the buffer of "db" is full, a later submission to "db" was dropped and a
\* submission to "net" made after that was buffered
C6_Witness ==
    /\ Count(mNonWriterQueue, "db") = QUEUE_LIMIT
    /\ \E s, t \in submitted :
           /\ s.module = "db" /\ ~s.bound /\ ~Buffered(s.msg)
           /\ t.module = "net" /\ Buffered(t.msg) /\ t.msg > s.msg

C8_OneWriterPerFile ==
    \A f \in Paths : Cardinality({files[f][i].by : i \in 1..Len(files[f])}) <= 1

\* C9: what a writer has written, followed by its batch and its queue, only ever
\* grows at its end: the lines are written in the order they were enqueued, across
\* any number of batch swaps.  For the writer of QLoggerWriter.cpp, whose lines are
\* numbered as they are enqueued: what it has appended to its files only grows at
\* its end and the numbers ascend through that, the batch and the queue.
C9_FifoPerWriter ==
    [][/\ \/ UNCHANGED <<files, mFileDestination, copy, messages>>
          \/ \A w \in Writers : IsPrefix(Pipeline(w), Pipeline(w)')
       /\ IsPrefix(logFile, logFile')
       /\ Ascending(logFile' \o batch' \o mMessages')
      ]_vars

\* a writer has written a batch, is writing a second and holds a third
C9_Witness ==
    \/ \E w \in Writers :
           /\ WrittenBy(w) # <<>>
           /\ copy[w] # <<>>
           /\ messages[w] # <<>>
    \/ /\ Len(logFile) >= 2
       /\ mMessages # <<>>
       /\ runPc = "swap"

RotationDue ==
    /\ runPc = "write" /\ runPc' = "written"
    /\ mMode # "OnlyConsole"
    /\ mFileHandling = "Split"
    /\ Size(disk, mBareFileDestination) >= mMaxFileSize

\* the step renames the full file to a name that was free, leaves the other files
\* alone and puts the "Previous log" line and the batch in a new file of the old name
Rotated ==
    \E newName \in DOMAIN disk' \ DOMAIN disk :
        /\ DOMAIN disk' = DOMAIN disk \cup {newName}
        /\ disk'[newName] = disk[mBareFileDestination]
        /\ disk'[mBareFileDestination] = <<[previous |-> newName]>> \o batch
        /\ \A f \in DOMAIN disk \ {mBareFileDestination} : disk'[f] = disk[f]

\* the name the rename aims at is taken: date tags are to the second
TargetTaken == mFileTag = "DateTime" /\ DateName(now) \in DOMAIN disk

\* the line is a "Previous log" line
IsPrevious(line) == DOMAIN line = {"previous"}

\* C11 as stated: a write() that finds its file full renames it once, to a file
\* that holds what the file held, and appends the batch to a new file of the old name.
C11_RotationAlwaysRenames ==
    [][RotationDue => Rotated]_vars

\* C11 amended: a write() that finds its file full renames it once and appends the
\* batch to a new file of the old name, unless the name to rename to is taken; no
\* step removes or changes a line that is in a file.
C11_RotationPreservesContent ==
    [][/\ (RotationDue /\ ~TargetTaken) => Rotated
       /\ \A f \in DOMAIN disk : \E g \in DOMAIN disk' : IsPrefix(disk[f], disk'[g])
      ]_vars

\* a file that was itself begun by a rotation has been renamed in a second rotation
C11_Witness ==
    /\ mBareFileDestination \in DOMAIN disk
    /\ IsPrevious(Head(disk[mBareFileDestination]))
    /\ \E f \in DOMAIN disk \ {mBareFileDestination} :
           /\ IsPrevious(Head(disk[f]))
           /\ Head(disk[mBareFileDestination]).previous = f

\* C12: when the rename of a full file fails because the name is taken, write()
\* goes on: the batch is appended to the full file, without a "Previous log" line,
\* the lines of every file are kept and the loop carries on.
C12_RenameFailureNonFatal ==
    [][(RotationDue /\ TargetTaken)
          => /\ disk' = [disk EXCEPT ![mBareFileDestination] = @ \o batch]
             /\ logFile' = logFile \o batch
             /\ runPc' = "written"
      ]_vars

\* a full file left by an earlier run has got lines of this run after its own
C12_Witness ==
    /\ mFileHandling = "Split"
    /\ mBareFileDestination \in DOMAIN disk
    /\ Len(disk[mBareFileDestination]) > Len(OldLines)
    /\ SubSeq(disk[mBareFileDestination], 1, Len(OldLines)) = OldLines
    /\ logFile # <<>>

\* the smallest n from first on for which no file has the name with (n)
SmallestFree(d, first) ==
    CHOOSE n \in first..(first + Cardinality(DOMAIN d)) :
        /\ NumberName(n) \notin DOMAIN d
        /\ \A k \in first..(n - 1) : NumberName(k) \in DOMAIN d

C14_DisabledNoIO ==
    [][mMode = "Disabled"
          => /\ Len(mMessages') <= Len(mMessages)
             /\ (runPc \in {"waiting1", "waiting2"} /\ ~mQuit') => runPc' = runPc
             /\ console' = console
             /\ disk' = disk
             /\ logFile' = logFile
      ]_vars

\* C15: a constructor or setLogMode that leaves the mode OnlyConsole, and every
\* step taken in that mode, makes no folder and creates, renames and appends to
\* no file; write() in that mode prints the whole batch to the console.
C15_OnlyConsoleNoFile ==
    [][mMode' = "OnlyConsole"
          => /\ dirMade' = dirMade
             /\ disk' = disk
             /\ logFile' = logFile
             /\ (runPc = "write" /\ runPc' = "written") => console' = console \o batch
      ]_vars

\* a writer made in mode OnlyConsole has printed a batch; there is no folder
C15_Witness ==
    /\ mMode = "OnlyConsole"
    /\ runPc = "written"
    /\ console # <<>>
    /\ ~dirMade
    /\ DOMAIN disk = {}

\* C16: while the writer is stopped the lines stay in its queue: no step takes a
\* line out of the queue, wakes the consumer (but for closeDestination) or writes to
\* a file, however stop(true) falls among the steps of the consumer.
C16_SoftPause ==
    [][mStopped
          => /\ IsPrefix(mMessages, mMessages')
             /\ (runPc \in {"waiting1", "waiting2"} /\ ~mQuit') => runPc' = runPc
             /\ disk' = disk
             /\ logFile' = logFile
      ]_vars

\* ---------------------------------------------------------------- registry
\* C17: a registration that binds a module gives the new writer the queue
\* <"Adding destination!" at Info> and starts its thread iff the registry is not
\* paused at that moment.
C17_RegistrationSideEffects ==
    [][(IsCall("addDestination") \/ IsCall("addDestinationList"))
          => \A m \in DOMAIN moduleDest' \ DOMAIN moduleDest :
                 /\ messages'[moduleDest'[m]] = <<Line(Info, m, 0)>>
                 /\ pc'[moduleDest'[m]] = "test" <=> ~mIsStop
      ]_vars

\* the number of places in the writers' files, batches and queues that hold msg
Occurrences(msg) ==
    Cardinality({wi \in Writers \X (1..(MaxCalls + QUEUE_LIMIT)) :
                     /\ wi[2] <= Len(Pipeline(wi[1]))
                     /\ Pipeline(wi[1])[wi[2]].msg = msg})

\* C18: a message submitted before registration is never both in the buffer and
\* with a writer, and it is with a writer at most once.
C18_BufferedOrDelivered ==
    \A s \in submitted :
        ~s.bound => (~(Buffered(s.msg) /\ Delivered(s.msg)) /\ Occurrences(s.msg) <= 1)

\* C19: once the destructor has drained the buffer, no entry of a bound module
\* that passes the threshold of its writer is left in it, paused or not.
C19_TeardownDrains ==
    life = "closing"
        => \A i \in 1..Len(mNonWriterQueue) :
               LET e == mNonWriterQueue[i]
               IN  ~(Contains(e.key) /\ mLevel[moduleDest[e.key]] <= e.level)

\* C20: no thread is blocked in wait() while its queue holds a line, its writer is
\* not stopped and quit is not set.
C20_NoLostWakeUp ==
    /\ \A w \in Writers :
           ~(pc[w] = "waiting" /\ messages[w] # <<>> /\ ~isStop[w] /\ ~quit[w])
    /\ ~(runPc \in {"waiting1", "waiting2"} /\ mMessages # <<>> /\ ~mStopped /\ ~mQuit)

\* ---------------------------------------------------------------- shutdown
\* C21: under fair scheduling, once the destructor of the registry has begun it
\* returns, every thread it closes having left run(); and once closeDestination()
\* was called on a writer whose thread runs, the thread leaves run().
C21_ShutdownTerminates ==
    /\ (life = "closing") ~> (life = "destroyed")
    /\ (mQuit /\ IsRunning) ~> ~IsRunning

\* ------------------------------------------------------------------ replay
\* the step replays the buffer of m: an enqueueMessage(m, ..) that the writer of m
\* accepts, or the destructor when the writer of m is not stopped
Replays(m) ==
    /\ Contains(m)
    /\ Count(mNonWriterQueue, m) > 0
    /\ \/ AcceptedSubmission(m)
       \/ life = "alive" /\ life' = "closing" /\ ~isStop[moduleDest[m]]

FileIO(w) == pc[w] = "write" /\ copy'[w] # copy[w]

\* the step is the write() of the writer of src/QLoggerWriter.cpp
RunFileIO == runPc = "write" /\ runPc' = "written"

\* the mutexes the thread of writer w holds, of its writer or of the registry; w = 0
\* is the writer of src/QLoggerWriter.cpp
HeldByRun(w) == {m \in held : m[2] = w /\ m[3] = "run"}

\* C23: a thread of run() that opens, renames or appends to a file holds no mutex,
\* before the step and after it: neither that of its writer nor that of the
\* registry; so a caller of enqueue on that writer can take its mutex.
C23_NoLockAcrossIO ==
    [][/\ \A w \in Writers : FileIO(w) => (HeldByRun(w) = {} /\ HeldByRun(w)' = {})
       /\ RunFileIO => (HeldByRun(0) = {} /\ HeldByRun(0)' = {})
      ]_vars

\* a thread that has held its mutex for the swap is at write() with a batch, while
\* the thread of another writer holds its own mutex; or the thread of the writer of
\* QLoggerWriter.cpp, having held its mutex for a second swap, is at write()
C23_Witness ==
    \/ \E w, v \in Writers :
           /\ pc[w] = "write" /\ copy[w] # <<>> /\ WrittenBy(w) = <<>>
           /\ WriterMutex(v) \in held
    \/ /\ runPc = "write" /\ batch # <<>> /\ logFile # <<>>
       /\ held = {}

\* ----------------------------------------------------------------- routing
\* C24: every line a writer holds or has written, but for its "Adding destination!"
\* line, is the rendering of a message submitted for the module the writer is bound
\* to, under that module's name; so the replay of the buffer of one module delivers
\* and re-tags no entry buffered for another.
C24_RoutingIsolation ==
    life # "destroyed"
        => \A w \in Writers : \A i \in 1..Len(Pipeline(w)) :
               LET t == Pipeline(w)[i]
               IN  t.msg # 0
                       => \E s \in submitted :
                              /\ s.msg = t.msg
                              /\ s.module = t.module
                              /\ s.level = t.level
                              /\ Contains(s.module) /\ moduleDest[s.module] = w

\* ------------------------------------------------------------------- pause
\* C25: whenever no pause(), resume() or addDestination() is in progress, the
\* stopped flag of every registered writer equals the flag of the registry.
C25_PauseFlagConsistent ==
    (life = "alive" /\ stopTodo = <<>> /\ AddDestinationMutex \notin held)
        => \A m \in DOMAIN moduleDest : isStop[moduleDest[m]] = mIsStop

\* ------------------------------------------------------------ single tagged
\* C26: with the handling SingleTagged, whatever the tag style and the files in the
\* folder, write() computes the same destination at every cycle: a write() does not
\* change what getFileDestination() returns, and all the lines the writer has written
\* are in one file.
C26_StableDestination ==
    [][(runPc # "none" /\ mFileHandling = "SingleTagged")
          => /\ GetFileDestination(disk') = GetFileDestination(disk)
             /\ \A i, j \in 1..Len(logFile') :
                    \E f \in DOMAIN disk' :
                        logFile'[i] \in Range(disk'[f]) /\ logFile'[j] \in Range(disk'[f])
      ]_vars

====
